---- MODULE Spec2Model ----
(***************************************************************************)
(* Model of the fileTT backend (src/Backend/main.py) and of the SPAKE      *)
(* helper senders (src/SPAKE_protocal.py).                                 *)
(*                                                                         *)
(* The backend is an asyncio program: a handler runs without interruption  *)
(* from one `await` to the next, so every action below is the stretch of   *)
(* code between two suspension points of one handler.  The module-level    *)
(* dictionaries are modelled as functions whose DOMAIN is the set of keys  *)
(* present; a defaultdict read of a missing key inserts the default (Touch).*)
(***************************************************************************)
EXTENDS Integers, Sequences, FiniteSets, TLC

\* ------------------------------------------------------------------ bounds
MaxUploadSize == 2      \* largest file.size of the upload, in scaled bytes
MaxDownloadSize == 2    \* largest size of the downloaded file, in scaled bytes
MaxWsChunks == 1        \* upload_chunk messages the clients send in one run
MaxSendCalls == 3       \* calls of the SPAKE_protocal.py senders in one run
MaxSendChunks == 2      \* most chunks of a file given to send_encrypted_file

\* ------------------------------------------------------- program constants
chunk_size == 1         \* upload_file: chunk_size = 1024 * 1024 (scaled to one unit)
dl_chunk_size == 1      \* stream_file: chunk_size = 1024 * 1024 * 10 (scaled to one unit)
frame_overhead == 1     \* len(iv + tag) of one frame (12 + 16 bytes), scaled likewise

task_id == "t1"                 \* the transfer id every handler below is called with
Conns == {"w1", "w2"}           \* progress websocket connections
NotifConns == {"n1", "n2", "n3"}      \* notification websocket connections
ClientIds == {"alice"}          \* non-empty client_id query values
UPLOAD_NAME == "f1"             \* file.filename of the upload
WsFileNames == {"f2"}           \* message["filename"] values of upload_chunk messages
NOTIFICATIONS == "notifications"

Min(a, b) == IF a < b THEN a ELSE b

\* ------------------------------------------------------ dictionary helpers
EmptyMap == <<>>
Has(m, k) == k \in DOMAIN m
Put(m, k, v) == [x \in (DOMAIN m) \cup {k} |-> IF x = k THEN v ELSE m[x]]
Del(m, k) == [x \in (DOMAIN m) \ {k} |-> m[x]]
\* defaultdict.__getitem__: a missing key is inserted with the default
Touch(m, k, d) == IF Has(m, k) THEN m ELSE Put(m, k, d)

\* list.remove(x): drops the first occurrence of x
RECURSIVE Remove(_, _)
Remove(s, x) ==
  IF s = <<>> THEN <<>>
  ELSE IF Head(s) = x THEN Tail(s)
  ELSE <<Head(s)>> \o Remove(Tail(s), x)

InSeq(s, x) == \E i \in 1..Len(s) : s[i] = x

\* ------------------------------------------------------------ module state
\* the default dict of progress_tracker.  Its "message" entry is left out: the
\* program only ever writes it, so it decides nothing; a write to it is kept as
\* the defaultdict access it makes (SetMessage)
DefaultProgress == [progress |-> 0, completed |-> FALSE, canceled |-> FALSE]

VARIABLES
  progress_tracker,   \* task_id -> progress dict
  websocket_clients,  \* task_id or "notifications" -> list of websockets
  cancel_events,      \* task_id -> asyncio.Event (TRUE = set)
  session_keys,       \* task_id -> derived key
  client_id_connections, \* client_id -> list of websockets
  files,              \* UPLOAD_DIR: filename -> sequence of written chunks
  \* upload_file locals
  upc, bytes_read, u_size, u_left, n_idx, u_result,
  \* broadcast_progress locals
  bpc, b_idx, b_detached,
  \* websocket_progress locals, per connection
  wpc, w_pd, w_chunks,
  \* download_file / stream_file locals
  dpc, bytes_sent, d_size, d_left,
  \* websocket_notifications locals, per connection
  npc, n_cid,
  n_sent,             \* per notification socket: the actions of the messages sent to it
  \* send_encrypted_file / send_encrypted_message (SPAKE_protocal.py)
  spc, s_nonce, s_left, s_log,
  \* run_client (SPAKE/client_A.py) and run_server (SPAKE/client_B.py)
  a_pc, b_pc,         \* where each party is
  a_pw, b_pw,         \* the --password each party was started with
  a_expect, b_expect, \* expected_confirm_B at A, expected_confirm_A at B
  net_ab, net_ba,     \* the socket: messages in flight from A to B, from B to A
  \* history of the run
  cancel_seen,        \* a cancel request took effect while the upload loop ran
  cancel_early,       \* cancel_upload was called before any session or upload existed
  hs_failed           \* a handshake on the task's signaling channel failed

registry == <<progress_tracker, websocket_clients, cancel_events, session_keys>>
uploadv == <<upc, bytes_read, u_size, u_left, n_idx, u_result>>
bcastv == <<bpc, b_idx, b_detached>>
wsv == <<wpc, w_pd, w_chunks>>
dlv == <<dpc, bytes_sent, d_size, d_left>>
notifv == <<client_id_connections, npc, n_cid>>
presencev == <<notifv, n_sent>>
senderv == <<spc, s_nonce, s_left, s_log>>
peerv == <<a_pc, b_pc, a_pw, b_pw, a_expect, b_expect, net_ab, net_ba>>
spakev == <<senderv, peerv>>      \* everything outside the backend
histv == <<cancel_seen, cancel_early, hs_failed>>
vars == <<registry, files, uploadv, bcastv, wsv, dlv, presencev, spakev, histv>>

\* ------------------------------------------------------- pure helpers
\* progress_tracker[task_id][field] = value, through the defaultdict
SetField(pt, t, f, v) ==
  LET p == Touch(pt, t, DefaultProgress) IN [p EXCEPT ![t] = [@ EXCEPT ![f] = v]]

\* progress_tracker[task_id]["message"] = ...
SetMessage(pt, t) == Touch(pt, t, DefaultProgress)

Terminal(p) == p.canceled \/ p.completed

\* a progress that counts what is left instead of what is done
Progress_Remaining(bytes, total) == 100 - Min(100, (bytes * 100) \div total)

\* min(100, (bytes / total) * 100), rounded down
Progress(bytes, total) == Min(100, (bytes * 100) \div total)

\* encrypt_data(data, key): iv is the os.urandom(12) draw, passed in by the caller
encrypt_data(data, key, iv) == [iv |-> iv, key |-> key, data |-> data]

\* decrypt_data(iv, ciphertext, tag, key): the GCM tag verifies only under the
\* key the frame was sealed with
decrypt_data(frame, key) == [ok |-> frame.key = key, data |-> frame.data]

\* one chunk as it lands in a file of UPLOAD_DIR
PlainChunk(who, data) == [by |-> who, key |-> "plain", iv |-> <<>>, data |-> data]
FrameChunk(who, fr) == [by |-> who, key |-> fr.key, iv |-> fr.iv, data |-> fr.data]

\* ------------------------------------------------------------- upload_file
\* The locals of a handler are reset when the code no longer reads them.
total_size == IF u_size = 0 THEN 1 ELSE u_size     \* file.size or 1

\* line 235: the file stays only if the session says completed and not canceled
FileWriterKeeps(p) == ~(p.canceled \/ ~p.completed)

\* file_writer's finally block (lines 233-242), given the dictionaries at that moment
FileWriterExit(pt, fs) ==
  IF Has(fs, UPLOAD_NAME)
  THEN LET pt1 == Touch(pt, task_id, DefaultProgress) IN
       [pt |-> pt1,
        files |-> IF FileWriterKeeps(pt1[task_id]) THEN fs ELSE Del(fs, UPLOAD_NAME)]
  ELSE [pt |-> pt, files |-> fs]

\* upload_file's finally block (lines 352-355)
UploadFinally(pt, ce) ==
  LET pt1 == Touch(pt, task_id, DefaultProgress) IN
  [pt |-> pt1,
   ce |-> IF Terminal(pt1[task_id]) /\ Has(ce, task_id) THEN Del(ce, task_id) ELSE ce]

UploadLocalsDead == bytes_read' = 0 /\ u_size' = 0 /\ u_left' = 0

\* the `return` out of the `async with` block: file_writer cleanup, then finally
UploadExit(pt, ce, fs) ==
  LET fw == FileWriterExit(pt, fs)
      fin == UploadFinally(fw.pt, ce)
  IN /\ cancel_events' = fin.ce
     /\ progress_tracker' = fin.pt
     /\ files' = fw.files
     /\ upc' = "done"
     /\ n_idx' = 0

\* lines 276-281, 288-292, 300-305, 326-331: cancellation observed
UploadCancelReturn(pt, ce) ==
  /\ progress_tracker' = SetMessage(SetField(pt, task_id, "canceled", TRUE), task_id)
  /\ cancel_events' = ce
  /\ upc' = "close_cancel"         \* suspended in `await file.close()`
  /\ u_result' = "canceled"
  /\ UploadLocalsDead

\* `cancel_events[task_id].is_set()`, read through the defaultdict
EventIsSet(ce) == Touch(ce, task_id, FALSE)[task_id]

\* top of the `while True` loop (line 275), then the suspension in file.read
UploadLoopTop(pt, ce, size, read, left) ==
  IF EventIsSet(ce)
  THEN UploadCancelReturn(pt, Touch(ce, task_id, FALSE))
  ELSE /\ progress_tracker' = pt
       /\ cancel_events' = Touch(ce, task_id, FALSE)
       /\ upc' = "read"
       /\ u_size' = size
       /\ bytes_read' = read
       /\ u_left' = left
       /\ UNCHANGED u_result

\* lines 246-275: the handler up to its first suspension
UploadStart ==
  \E size \in 0..MaxUploadSize :
    /\ upc = "idle"
    /\ bpc' = "check"                          \* asyncio.create_task(broadcast_progress())
    /\ files' = Put(files, UPLOAD_NAME, <<>>)  \* open(filepath, "wb")
    /\ UploadLoopTop(progress_tracker, cancel_events, size, 0, size)
    /\ UNCHANGED <<websocket_clients, session_keys, n_idx, b_idx, b_detached,
                   wsv, dlv, presencev, spakev, histv>>

\* lines 286-293: file.read timed out
UploadReadTimeout ==
  /\ upc = "read"
  /\ UploadLoopTop(progress_tracker, cancel_events, u_size, bytes_read, u_left)
  /\ UNCHANGED <<websocket_clients, session_keys, files, n_idx, bcastv, wsv, dlv,
                 presencev, spakev, histv>>

\* lines 307-312: the chunk as written to the file
UploadChunk(keys, data, iv) ==
  IF Has(keys, task_id)
  THEN FrameChunk("upload", encrypt_data(data, keys[task_id], iv))
  ELSE PlainChunk("upload", data)

\* lines 295-320, then 275: file.read returned a chunk
UploadReadChunk ==
  /\ upc = "read"
  /\ u_left > 0
  /\ LET n == Min(chunk_size, u_left)
         ce1 == Touch(cancel_events, task_id, FALSE)
         read == bytes_read + n
         pt1 == SetMessage(SetField(progress_tracker, task_id, "progress",
                                    Progress(read, total_size)), task_id)
     IN IF ce1[task_id]
        THEN /\ UploadCancelReturn(progress_tracker, ce1)
             /\ UNCHANGED files
        ELSE /\ files' = [files EXCEPT ![UPLOAD_NAME] =
                            Append(@, UploadChunk(session_keys, read, <<"upload", read>>))]
             /\ UploadLoopTop(pt1, ce1, u_size, read, u_left - n)
  /\ UNCHANGED <<websocket_clients, session_keys, n_idx, bcastv, wsv, dlv, presencev,
                 spakev, histv>>

\* lines 335-337
UploadComplete(pt) ==
  SetMessage(SetField(SetField(pt, task_id, "progress", 100), task_id, "completed", TRUE),
             task_id)

\* line 341
ShouldAnnounce(p) == p.completed /\ ~p.canceled

\* line 212: broadcast_upload_complete has somebody to send to
HasNotifClients(wc) == Has(wc, NOTIFICATIONS) /\ wc[NOTIFICATIONS] # <<>>

\* lines 216-220: the upload_complete message goes out to ws
Announce(ws) == [n_sent EXCEPT ![ws] = @ \cup {"upload_complete"}]

\* lines 295-296, 324-344: end of file
UploadReadEOF ==
  /\ upc = "read"
  /\ u_left = 0
  /\ LET ce1 == Touch(cancel_events, task_id, FALSE)
         pt1 == UploadComplete(progress_tracker)
     IN IF ce1[task_id]
        THEN /\ UploadCancelReturn(progress_tracker, ce1)
             /\ UNCHANGED <<files, n_idx, n_sent>>
        ELSE /\ u_result' = "completed"
             /\ UploadLocalsDead
             /\ IF ShouldAnnounce(pt1[task_id]) /\ HasNotifClients(websocket_clients)
                THEN /\ progress_tracker' = pt1
                     /\ cancel_events' = ce1
                     /\ upc' = "notify"       \* suspended in the first ws.send_json
                     /\ n_idx' = 1
                     /\ n_sent' = Announce(websocket_clients[NOTIFICATIONS][1])
                     /\ UNCHANGED files
                ELSE /\ UploadExit(pt1, ce1, files)
                     /\ UNCHANGED n_sent
  /\ UNCHANGED <<websocket_clients, session_keys, bcastv, wsv, dlv, notifv, spakev,
                 histv>>

\* lines 214-223: one send of broadcast_upload_complete came back
UploadNotifySent ==
  /\ upc = "notify"
  /\ IF n_idx < Len(websocket_clients[NOTIFICATIONS])
     THEN /\ n_idx' = n_idx + 1
          /\ n_sent' = Announce(websocket_clients[NOTIFICATIONS][n_idx + 1])
          /\ UNCHANGED <<progress_tracker, cancel_events, files, upc>>
     ELSE /\ UploadExit(progress_tracker, cancel_events, files)
          /\ UNCHANGED n_sent
  /\ UNCHANGED <<websocket_clients, session_keys, bytes_read, u_size, u_left, u_result,
                 bcastv, wsv, dlv, notifv, spakev, histv>>

\* `await file.close()` of a cancel path came back: return
UploadClosed ==
  /\ upc = "close_cancel"
  /\ UploadExit(progress_tracker, cancel_events, files)
  /\ UNCHANGED <<websocket_clients, session_keys, bytes_read, u_size, u_left, u_result,
                 bcastv, wsv, dlv, presencev, spakev, histv>>

\* lines 346-350: file.read (or the write) raised inside the `async with`:
\* file_writer's finally runs as the exception leaves the block, then `except`
UploadReadError ==
  /\ upc = "read"
  /\ LET fw == FileWriterExit(progress_tracker, files) IN
       /\ files' = fw.files
       /\ progress_tracker' =
            SetField(SetMessage(fw.pt, task_id), task_id, "completed", TRUE)
  /\ upc' = "close_err"            \* suspended in `await file.close()`
  /\ u_result' = "failed"
  /\ UploadLocalsDead
  /\ UNCHANGED <<websocket_clients, cancel_events, session_keys, n_idx, bcastv, wsv,
                 dlv, presencev, spakev, histv>>

\* lines 350-355: `await file.close()` came back, HTTPException raised, finally
UploadErrClosed ==
  /\ upc = "close_err"
  /\ LET fin == UploadFinally(progress_tracker, cancel_events) IN
       /\ progress_tracker' = fin.pt
       /\ cancel_events' = fin.ce
  /\ upc' = "done"
  /\ UNCHANGED <<websocket_clients, session_keys, files, bytes_read, u_size, u_left,
                 n_idx, u_result, bcastv, wsv, dlv, presencev, spakev, histv>>

\* ----------------------------------------------------------- cancel_upload
\* lines 359-371
CancelUpload ==
  /\ IF Has(progress_tracker, task_id)
     THEN /\ progress_tracker' =
               SetMessage(SetField(progress_tracker, task_id, "canceled", TRUE), task_id)
          /\ cancel_events' = Put(cancel_events, task_id, TRUE)
          /\ cancel_seen' = (cancel_seen \/ upc = "read")
          /\ UNCHANGED cancel_early
     ELSE /\ cancel_early' = (cancel_early \/ upc = "idle")   \* {"error": "Task not found"}
          /\ UNCHANGED <<progress_tracker, cancel_events, cancel_seen>>
  /\ UNCHANGED <<websocket_clients, session_keys, files, uploadv, bcastv, wsv, dlv,
                 presencev, spakev, hs_failed>>

\* ------------------------------------------------------ broadcast_progress
\* bpc = "check": the task is runnable (just created by create_task, or woken
\* from the sleep of line 267) and about to evaluate the condition of line 258.
\* lines 258-264: the condition, then on to the first send or to the sleep
BcastCheck ==
  /\ bpc = "check"
  /\ LET pt1 == Touch(progress_tracker, task_id, DefaultProgress)
         wc1 == Touch(websocket_clients, task_id, <<>>)
     IN /\ progress_tracker' = pt1
        /\ IF Terminal(pt1[task_id])
           THEN /\ bpc' = "done"
                /\ UNCHANGED <<websocket_clients, b_idx>>
           ELSE /\ websocket_clients' = wc1
                /\ IF wc1[task_id] # <<>>
                   THEN /\ bpc' = "send"
                        /\ b_idx' = 1
                   ELSE /\ bpc' = "sleep"
                        /\ UNCHANGED b_idx
  /\ UNCHANGED <<cancel_events, session_keys, files, uploadv, b_detached, wsv, dlv,
                 presencev, spakev, histv>>

\* lines 262-267: a send came back (or raised and was logged); the list iterator
\* moves on over the list object it holds
BcastSendDone ==
  /\ bpc = "send"
  /\ IF ~b_detached /\ b_idx < Len(websocket_clients[task_id])
     THEN /\ b_idx' = b_idx + 1
          /\ progress_tracker' = Touch(progress_tracker, task_id, DefaultProgress)
          /\ UNCHANGED <<bpc, b_detached>>
     ELSE /\ bpc' = "sleep"
          /\ b_idx' = 0
          /\ b_detached' = FALSE
          /\ UNCHANGED progress_tracker
  /\ UNCHANGED <<websocket_clients, cancel_events, session_keys, files, uploadv,
                 wsv, dlv, presencev, spakev, histv>>

\* line 267: asyncio.sleep(0.2) is over
BcastWake ==
  /\ bpc = "sleep"
  /\ bpc' = "check"
  /\ UNCHANGED <<registry, files, uploadv, b_idx, b_detached, wsv, dlv, presencev,
                 spakev, histv>>

\* ------------------------------------------------------ websocket_progress
\* hkdf_expand(spake2_a.finish(msg_in), "file_encryption"): fresh randomness
\* (password, salt) per connection, so one key per connection
DerivedKey(w) == w

NoData == [live |-> FALSE, obj |-> DefaultProgress]

\* the dict `progress_data` refers to
ProgressData(w, pt) == IF w_pd[w].live THEN pt[task_id] ELSE w_pd[w].obj

\* lines 93-100
WsAccept(w) ==
  /\ wpc[w] = "idle"
  /\ websocket_clients' =
       [Touch(websocket_clients, task_id, <<>>) EXCEPT ![task_id] = Append(@, w)]
  /\ wpc' = [wpc EXCEPT ![w] = "hs"]
  /\ UNCHANGED <<progress_tracker, cancel_events, session_keys, files, uploadv, bcastv,
                 w_pd, w_chunks, dlv, presencev, spakev, histv>>

\* line 100 raised: it is outside the try, so no cleanup runs
WsHsSendFail(w) ==
  /\ wpc[w] = "hs"
  /\ wpc' = [wpc EXCEPT ![w] = "dead"]
  /\ UNCHANGED <<registry, files, uploadv, bcastv, w_pd, w_chunks, dlv, presencev,
                 spakev, histv>>

\* lines 113-115: top of the progress loop
WsLoopTop(w, pt) ==
  /\ progress_tracker' = Touch(pt, task_id, DefaultProgress)
  /\ w_pd' = [w_pd EXCEPT ![w] = [live |-> TRUE, obj |-> DefaultProgress]]
  /\ wpc' = [wpc EXCEPT ![w] = "send"]
  /\ UNCHANGED websocket_clients

\* lines 147-153: except, then finally up to the suspension in close()
WsFinallyRemove(w, wc) ==
  [Touch(wc, task_id, <<>>) EXCEPT ![task_id] = Remove(@, w)]

WsExcept(w, pt) ==
  /\ progress_tracker' = SetMessage(pt, task_id)
  /\ websocket_clients' = WsFinallyRemove(w, websocket_clients)
  /\ w_pd' = [w_pd EXCEPT ![w] = NoData]
  /\ wpc' = [wpc EXCEPT ![w] = "closing"]

\* lines 143-145, then 150-153 or back to 113
WsLoopEnd(w, pt) ==
  IF Terminal(ProgressData(w, pt))
  THEN /\ progress_tracker' = pt
       /\ websocket_clients' = WsFinallyRemove(w, websocket_clients)
       /\ w_pd' = [w_pd EXCEPT ![w] = NoData]
       /\ wpc' = [wpc EXCEPT ![w] = "closing"]
  ELSE WsLoopTop(w, pt)

\* lines 104-115: the client's SPAKE2 message arrived and finish() succeeded
WsHandshakeOk(w) ==
  /\ wpc[w] = "hs"
  /\ session_keys' = Put(session_keys, task_id, DerivedKey(w))
  /\ WsLoopTop(w, progress_tracker)
  /\ UNCHANGED <<cancel_events, files, uploadv, bcastv, w_chunks, dlv, presencev,
                 spakev, histv>>

\* lines 104-106 raised: disconnect, malformed message, finish() rejected it
WsHandshakeFail(w) ==
  /\ wpc[w] = "hs"
  /\ hs_failed' = TRUE
  /\ WsExcept(w, progress_tracker)
  /\ UNCHANGED <<cancel_events, session_keys, files, uploadv, bcastv, w_chunks, dlv,
                 presencev, spakev, cancel_seen, cancel_early>>

\* line 115 returned; suspended in wait_for(receive_json) of line 119
WsSendOk(w) ==
  /\ wpc[w] = "send"
  /\ wpc' = [wpc EXCEPT ![w] = "recv"]
  /\ UNCHANGED <<registry, files, uploadv, bcastv, w_pd, w_chunks, dlv, presencev,
                 spakev, histv>>

\* line 115 raised
WsSendFail(w) ==
  /\ wpc[w] = "send"
  /\ WsExcept(w, progress_tracker)
  /\ UNCHANGED <<cancel_events, session_keys, files, uploadv, bcastv, w_chunks, dlv,
                 presencev, spakev, histv>>

\* lines 141-145: no message within the timeout (or one with another action)
WsRecvTimeout(w) ==
  /\ wpc[w] = "recv"
  /\ WsLoopEnd(w, progress_tracker)
  /\ UNCHANGED <<cancel_events, session_keys, files, uploadv, bcastv, w_chunks, dlv,
                 presencev, spakev, histv>>

\* lines 120-128, 143-145: {"action": "cancel"}
WsRecvCancel(w) ==
  /\ wpc[w] = "recv"
  /\ cancel_events' = Put(cancel_events, task_id, TRUE)
  /\ cancel_seen' = (cancel_seen \/ (upc = "read" /\ Has(progress_tracker, task_id)))
  /\ WsLoopEnd(w, SetMessage(SetField(progress_tracker, task_id, "canceled", TRUE), task_id))
  /\ UNCHANGED <<session_keys, files, uploadv, bcastv, w_chunks, dlv, presencev,
                 spakev, cancel_early, hs_failed>>

\* values a client may put in the "progress" field of an upload_chunk message
ClientProgress == {0, 150}
\* keys a client may have sealed an upload_chunk frame with
FrameKeys == {DerivedKey(w) : w \in Conns} \cup {"garbage"}

\* lines 129-140, 143-145: {"action": "upload_chunk", ...}
WsRecvChunk(w) ==
  \E fk \in FrameKeys, pr \in ClientProgress, fn \in WsFileNames :
    /\ wpc[w] = "recv"
    /\ w_chunks < MaxWsChunks
    /\ w_chunks' = w_chunks + 1
    /\ Has(session_keys, task_id)
    /\ LET frame == encrypt_data(0, fk, <<"client", w>>)
           plain == decrypt_data(frame, session_keys[task_id])
       IN IF plain.ok
          THEN /\ files' = [Touch(files, fn, <<>>) EXCEPT ![fn] =     \* open(.., "ab")
                              Append(@, PlainChunk("ws", plain.data))]
               /\ WsLoopEnd(w, SetMessage(SetField(progress_tracker, task_id,
                                                    "progress", pr), task_id))
          ELSE /\ WsExcept(w, progress_tracker)     \* InvalidTag
               /\ UNCHANGED files
    /\ UNCHANGED <<cancel_events, session_keys, uploadv, bcastv, dlv, presencev,
                   spakev, histv>>

\* line 119 raised (disconnect, bad JSON), or a field of the message is missing
WsRecvError(w) ==
  /\ wpc[w] = "recv"
  /\ WsExcept(w, progress_tracker)
  /\ UNCHANGED <<cancel_events, session_keys, files, uploadv, bcastv, w_chunks, dlv,
                 presencev, spakev, histv>>

\* a teardown that forgets the terminal test of line 157
ShouldDeleteSession_Always(p) == TRUE

\* line 157: the session may go once nobody subscribes
ShouldDeleteSession(p) == p.canceled \/ p.completed

\* lines 154-162: close() came back
WsClosed(w) ==
  /\ wpc[w] = "closing"
  /\ wpc' = [wpc EXCEPT ![w] = "done"]
  /\ LET wc1 == Touch(websocket_clients, task_id, <<>>) IN
     IF wc1[task_id] = <<>>
     THEN LET pt1 == Touch(progress_tracker, task_id, DefaultProgress) IN
          /\ websocket_clients' = Del(wc1, task_id)
          /\ b_detached' = (bpc = "send")    \* the iterator keeps the old, empty list
          /\ IF ShouldDeleteSession(pt1[task_id])
             THEN /\ progress_tracker' = Del(pt1, task_id)
                  /\ cancel_events' = Del(cancel_events, task_id)
                  /\ session_keys' = Del(session_keys, task_id)
                  /\ w_pd' = [x \in Conns |->
                               IF w_pd[x].live THEN [live |-> FALSE, obj |-> pt1[task_id]]
                               ELSE w_pd[x]]
             ELSE /\ progress_tracker' = pt1
                  /\ UNCHANGED <<cancel_events, session_keys, w_pd>>
     ELSE /\ websocket_clients' = wc1
          /\ UNCHANGED <<progress_tracker, cancel_events, session_keys, b_detached, w_pd>>
  /\ UNCHANGED <<files, uploadv, bpc, b_idx, w_chunks, dlv, presencev, spakev, histv>>

\* ------------------------------------------------------------ download_file
\* lines 375-387, 408-412: the file exists; the response starts streaming
DlStart ==
  \E size \in 0..MaxDownloadSize :
    /\ dpc = "idle"
    /\ dpc' = "stream"
    /\ d_size' = size
    /\ d_left' = size
    /\ bytes_sent' = 0
    /\ UNCHANGED <<registry, files, uploadv, bcastv, wsv, presencev, spakev, histv>>

\* lines 391-403: one chunk read, framed, counted and yielded
DlChunkLen(keys, n) == IF Has(keys, task_id) THEN n + frame_overhead ELSE n

DlChunk ==
  /\ dpc = "stream"
  /\ d_left > 0
  /\ LET n == Min(dl_chunk_size, d_left)
         sent == bytes_sent + DlChunkLen(session_keys, n)
     IN /\ d_left' = d_left - n
        /\ bytes_sent' = sent
        /\ progress_tracker' =
             SetMessage(SetField(progress_tracker, task_id, "progress",
                                 Progress(sent, d_size)), task_id)
  /\ UNCHANGED <<websocket_clients, cancel_events, session_keys, files, uploadv, bcastv,
                 wsv, dpc, d_size, presencev, spakev, histv>>

\* lines 404-406: the file is exhausted
DlFinish ==
  /\ dpc = "stream"
  /\ d_left = 0
  /\ dpc' = "done"
  /\ bytes_sent' = 0
  /\ d_size' = 0
  /\ progress_tracker' =
       SetField(SetField(progress_tracker, task_id, "progress", 100),
                task_id, "completed", TRUE)
  /\ UNCHANGED <<websocket_clients, cancel_events, session_keys, files, uploadv, bcastv,
                 wsv, d_left, presencev, spakev, histv>>

\* --------------------------------------------------- websocket_notifications
\* client_id as the query string gives it: "" stands for a missing client_id
ClientIdArgs == ClientIds \cup {""}

\* a finally block that drops the client id's whole roster entry
NotifFinally_DropClient(n, wc, cic) ==
  LET wc1 == Touch(wc, NOTIFICATIONS, <<>>) IN
  [wc |-> [wc1 EXCEPT ![NOTIFICATIONS] = Remove(@, n)],
   cic |-> IF n_cid[n] # "" THEN Del(cic, n_cid[n]) ELSE cic]

\* a finally block that leaves the roster of the client id alone
NotifFinally_KeepRoster(n, wc, cic) ==
  LET wc1 == Touch(wc, NOTIFICATIONS, <<>>) IN
  [wc |-> [wc1 EXCEPT ![NOTIFICATIONS] = Remove(@, n)], cic |-> cic]

\* the finally block up to its close() (lines 199-204)
NotifFinally(n, wc, cic) ==
  LET wc1 == Touch(wc, NOTIFICATIONS, <<>>)
      wc2 == [wc1 EXCEPT ![NOTIFICATIONS] = Remove(@, n)]
      c == n_cid[n]
      cic1 == IF c # "" THEN Touch(cic, c, <<>>) ELSE cic
      cic2 == IF c # "" /\ InSeq(cic1[c], n)
              THEN LET l == Remove(cic1[c], n) IN
                   IF l = <<>> THEN Del(cic1, c) ELSE [cic1 EXCEPT ![c] = l]
              ELSE cic1
  IN [wc |-> wc2, cic |-> cic2]

NotifUnchanged ==
  UNCHANGED <<progress_tracker, cancel_events, session_keys, files, uploadv, bcastv,
              wsv, dlv, spakev, histv>>

\* lines 166-173: the already-connected test, up to the await of close or accept
NotifConnect(n) ==
  /\ npc[n] = "idle"
  /\ \E c \in ClientIdArgs :
       /\ n_cid' = [n_cid EXCEPT ![n] = c]
       /\ IF c # ""
          THEN LET cic1 == Touch(client_id_connections, c, <<>>) IN
               /\ client_id_connections' = cic1
               /\ npc' = [npc EXCEPT ![n] = IF Len(cic1[c]) > 0 THEN "reject" ELSE "accept"]
          ELSE /\ UNCHANGED client_id_connections
               /\ npc' = [npc EXCEPT ![n] = "accept"]
  /\ UNCHANGED <<websocket_clients, n_sent>>
  /\ NotifUnchanged

\* lines 170-171, 198-207: close(1008) came back; the socket was never accepted
NotifRejected(n) ==
  /\ npc[n] = "reject"
  /\ LET f == NotifFinally(n, websocket_clients, client_id_connections) IN
     /\ websocket_clients' = f.wc
     /\ client_id_connections' = f.cic
  /\ npc' = [npc EXCEPT ![n] = "rejected"]      \* returned at line 171
  /\ UNCHANGED <<n_cid, n_sent>>
  /\ NotifUnchanged

\* lines 173-184: accept() came back; register, then send the first ping
NotifAccepted(n) ==
  /\ npc[n] = "accept"
  /\ websocket_clients' =
       LET wc1 == IF Has(websocket_clients, NOTIFICATIONS) THEN websocket_clients
                  ELSE Put(websocket_clients, NOTIFICATIONS, <<>>)
       IN [wc1 EXCEPT ![NOTIFICATIONS] = Append(@, n)]
  /\ client_id_connections' =
       IF n_cid[n] # ""
       THEN LET cic1 == Touch(client_id_connections, n_cid[n], <<>>) IN
            [cic1 EXCEPT ![n_cid[n]] = Append(@, n)]
       ELSE client_id_connections
  /\ npc' = [npc EXCEPT ![n] = "ping"]
  /\ n_sent' = [n_sent EXCEPT ![n] = @ \cup {"ping"}]      \* line 184
  /\ UNCHANGED n_cid
  /\ NotifUnchanged

\* lines 173, 196-207: accept() raised; the socket is not connected, so no close()
NotifAcceptFail(n) ==
  /\ npc[n] = "accept"
  /\ LET f == NotifFinally(n, websocket_clients, client_id_connections) IN
     /\ websocket_clients' = f.wc
     /\ client_id_connections' = f.cic
  /\ npc' = [npc EXCEPT ![n] = "done"]
  /\ UNCHANGED <<n_cid, n_sent>>
  /\ NotifUnchanged

\* lines 184-190: the ping went out; wait for a message
NotifPingOk(n) ==
  /\ npc[n] = "ping"
  /\ npc' = [npc EXCEPT ![n] = "recv"]
  /\ UNCHANGED <<websocket_clients, client_id_connections, n_cid, n_sent>>
  /\ NotifUnchanged

\* the loop is left: finally block, then the await of close() (lines 198-206)
NotifLeave(n) ==
  /\ LET f == NotifFinally(n, websocket_clients, client_id_connections) IN
     /\ websocket_clients' = f.wc
     /\ client_id_connections' = f.cic
  /\ npc' = [npc EXCEPT ![n] = "closing"]
  /\ UNCHANGED <<n_cid, n_sent>>
  /\ NotifUnchanged

\* lines 186-188: the ping failed
NotifPingFail(n) == npc[n] = "ping" /\ NotifLeave(n)

\* line 190: a message arrived within 60 s; next ping
NotifRecvMsg(n) ==
  /\ npc[n] = "recv"
  /\ npc' = [npc EXCEPT ![n] = "ping"]
  /\ n_sent' = [n_sent EXCEPT ![n] = @ \cup {"ping"}]      \* line 184
  /\ UNCHANGED <<websocket_clients, client_id_connections, n_cid>>
  /\ NotifUnchanged

\* lines 190-195: the wait timed out, or receive_json raised
NotifRecvFail(n) == npc[n] = "recv" /\ NotifLeave(n)

\* lines 206-207: close() came back
NotifClosed(n) ==
  /\ npc[n] = "closing"
  /\ npc' = [npc EXCEPT ![n] = "done"]
  /\ UNCHANGED <<websocket_clients, client_id_connections, n_cid, n_sent>>
  /\ NotifUnchanged

\* ------------------------------------------- SPAKE_protocal.py: the senders
\* The caller hands each call an AESGCM object and a nonce.  The model's caller
\* keeps one key and draws a nonce it has not used before for every call.
SenderKey == "aesgcm"

SenderUnchanged ==
  UNCHANGED <<registry, files, uploadv, bcastv, wsv, dlv, presencev, histv, peerv>>

\* aesgcm.encrypt(nonce, plaintext, None), as the record of what was sealed
Seal(nonce, plaintext) == [key |-> SenderKey, nonce |-> nonce, data |-> plaintext]

\* send_encrypted_file, lines 17-21: the metadata frame goes out
SendFileStart ==
  /\ spc = "idle"
  /\ s_nonce < MaxSendCalls
  /\ \E chunks \in 0..MaxSendChunks : s_left' = chunks
  /\ s_nonce' = s_nonce + 1
  /\ spc' = "file"
  /\ UNCHANGED s_log
  /\ SenderUnchanged

\* lines 26-30: one chunk read, sealed under the call's nonce and sent
SendFileChunk ==
  /\ spc = "file"
  /\ s_left > 0
  /\ s_log' = Append(s_log, Seal(s_nonce, <<"chunk", s_left>>))
  /\ s_left' = s_left - 1
  /\ UNCHANGED <<spc, s_nonce>>
  /\ SenderUnchanged

\* lines 27-33: end of file; the file_end frame goes out
SendFileEnd ==
  /\ spc = "file"
  /\ s_left = 0
  /\ spc' = "idle"
  /\ UNCHANGED <<s_nonce, s_left, s_log>>
  /\ SenderUnchanged

\* send_encrypted_message, lines 41-47
SendMessage ==
  /\ spc = "idle"
  /\ s_nonce < MaxSendCalls
  /\ s_nonce' = s_nonce + 1
  /\ s_log' = Append(s_log, Seal(s_nonce + 1, <<"message", s_nonce + 1>>))
  /\ UNCHANGED <<spc, s_left>>
  /\ SenderUnchanged

\* ------------------------- SPAKE/client_A.py and SPAKE/client_B.py: the peers
Passwords == {"p1", "p2"}       \* --password values
\* 16-byte values os.urandom(16) can return; 0 is the all-zero value, which HMAC
\* pads to the same key as the zeros HKDF uses for salt=None
Salts == {0, 1, 2}
ZeroSalt == 0
NoConfirm == [key |-> "", info |-> "", salt |-> ZeroSalt]

\* spa.start() / spb.start(): the outbound element, blinded with the password
SpakeStart(side, pw) == [side |-> side, pw |-> pw]

\* finish(msg): both sides get the same key exactly when the passwords agree
SpakeFinish(side, pw, msg) ==
  IF msg.pw = pw THEN "shared" ELSE IF side = "A" THEN "junkA" ELSE "junkB"

\* HKDF(SHA256, length, salt, info).derive(key): a function of all three
Hkdf(key, info, salt) == [key |-> key, info |-> info, salt |-> salt]

\* client_A.hkdf_expand (lines 10-24): salt = os.urandom(16), drawn by the caller
hkdf_expand_A(key, info, salt) == Hkdf(key, info, salt)

\* client_B.hkdf_expand (lines 8-15): salt=None
hkdf_expand_B(key, info) == Hkdf(key, info, ZeroSalt)

PeerUnchanged ==
  UNCHANGED <<registry, files, uploadv, bcastv, wsv, dlv, presencev, senderv, histv>>

\* run_server lines 34-38: bind, listen, block in accept
BListen ==
  /\ b_pc = "idle"
  /\ \E pw \in Passwords : b_pw' = pw
  /\ b_pc' = "accept"
  /\ UNCHANGED <<a_pc, a_pw, a_expect, b_expect, net_ab, net_ba>>
  /\ PeerUnchanged

\* run_client lines 43-52: connect, start, send msg_a, block in receive
AConnect ==
  /\ a_pc = "idle"
  /\ b_pc # "idle"
  /\ \E pw \in Passwords :
       /\ a_pw' = pw
       /\ net_ab' = Append(net_ab, SpakeStart("A", pw))
  /\ a_pc' = "recv_msg"
  /\ UNCHANGED <<b_pc, b_pw, a_expect, b_expect, net_ba>>
  /\ PeerUnchanged

\* run_server lines 38-47: accept returned; start, send msg_b, block in receive
BAccept ==
  /\ b_pc = "accept"
  /\ a_pc # "idle"
  /\ net_ba' = Append(net_ba, SpakeStart("B", b_pw))
  /\ b_pc' = "recv_msg"
  /\ UNCHANGED <<a_pc, a_pw, b_pw, a_expect, b_expect, net_ab>>
  /\ PeerUnchanged

\* run_client lines 52-62: msg_b arrived; finish, derive both confirmations,
\* send confirm_A, block in receive
AFinish ==
  /\ a_pc = "recv_msg"
  /\ net_ba # <<>>
  /\ \E s1, s2 \in Salts :
       LET key == SpakeFinish("A", a_pw, Head(net_ba)) IN
       /\ net_ab' = Append(net_ab, hkdf_expand_A(key, "confirm_A", s1))
       /\ a_expect' = hkdf_expand_A(key, "confirm_B", s2)
  /\ net_ba' = Tail(net_ba)
  /\ a_pc' = "recv_confirm"
  /\ UNCHANGED <<b_pc, a_pw, b_pw, b_expect>>
  /\ PeerUnchanged

\* run_server lines 47-57: msg_a arrived; finish, derive both confirmations,
\* send confirm_B, block in receive
BFinish ==
  /\ b_pc = "recv_msg"
  /\ net_ab # <<>>
  /\ LET key == SpakeFinish("B", b_pw, Head(net_ab)) IN
       /\ b_expect' = hkdf_expand_B(key, "confirm_A")
       /\ net_ba' = Append(net_ba, hkdf_expand_B(key, "confirm_B"))
  /\ net_ab' = Tail(net_ab)
  /\ b_pc' = "recv_confirm"
  /\ UNCHANGED <<a_pc, a_pw, b_pw, a_expect>>
  /\ PeerUnchanged

\* run_client lines 62-67: B's confirmation arrived; compare
AVerify ==
  /\ a_pc = "recv_confirm"
  /\ net_ba # <<>>
  /\ a_pc' = IF Head(net_ba) # a_expect THEN "failed" ELSE "ok"
  /\ net_ba' = Tail(net_ba)
  /\ UNCHANGED <<b_pc, a_pw, b_pw, a_expect, b_expect, net_ab>>
  /\ PeerUnchanged

\* run_server lines 57-63: A's confirmation arrived; compare
BVerify ==
  /\ b_pc = "recv_confirm"
  /\ net_ab # <<>>
  /\ b_pc' = IF Head(net_ab) # b_expect THEN "failed" ELSE "ok"
  /\ net_ab' = Tail(net_ab)
  /\ UNCHANGED <<a_pc, a_pw, b_pw, a_expect, b_expect, net_ba>>
  /\ PeerUnchanged

\* ------------------------------------------------------------ specification
\* the state after the module is loaded, apart from the notification sockets
NoTransfer ==
  /\ progress_tracker = EmptyMap
  /\ cancel_events = EmptyMap
  /\ session_keys = EmptyMap
  /\ client_id_connections = EmptyMap
  /\ files = EmptyMap
  /\ upc = "idle"
  /\ bytes_read = 0
  /\ u_size = 0
  /\ u_left = 0
  /\ n_idx = 0
  /\ u_result = "none"
  /\ bpc = "none"
  /\ b_idx = 0
  /\ b_detached = FALSE
  /\ wpc = [w \in Conns |-> "idle"]
  /\ w_pd = [w \in Conns |-> NoData]
  /\ w_chunks = 0
  /\ dpc = "idle"
  /\ bytes_sent = 0
  /\ d_size = 0
  /\ d_left = 0
  /\ n_cid = [n \in NotifConns |-> ""]
  /\ spc = "idle"
  /\ s_nonce = 0
  /\ s_left = 0
  /\ s_log = <<>>
  /\ a_pc = "idle"
  /\ b_pc = "idle"
  /\ a_pw = ""
  /\ b_pw = ""
  /\ a_expect = NoConfirm
  /\ b_expect = NoConfirm
  /\ net_ab = <<>>
  /\ net_ba = <<>>
  /\ cancel_seen = FALSE
  /\ cancel_early = FALSE
  /\ hs_failed = FALSE

\* notification sockets registered (without client_id) when the transfer starts.
\* With one registered, broadcast_upload_complete suspends in its send; the run
\* in which UploadNotifySent comes next is the run with nobody registered.
Registered == <<"n1">>

Init ==
  /\ NoTransfer
  /\ websocket_clients = [k \in {NOTIFICATIONS} |-> Registered]
  /\ npc = [n \in NotifConns |-> IF InSeq(Registered, n) THEN "recv" ELSE "idle"]
  /\ n_sent = [n \in NotifConns |-> IF InSeq(Registered, n) THEN {"ping"} ELSE {}]

\* nothing connected yet
InitIdle ==
  /\ NoTransfer
  /\ websocket_clients = EmptyMap
  /\ npc = [n \in NotifConns |-> "idle"]
  /\ n_sent = [n \in NotifConns |-> {}]

Upload ==
  \/ UploadStart \/ UploadReadTimeout \/ UploadReadChunk \/ UploadReadEOF
  \/ UploadNotifySent \/ UploadClosed \/ UploadReadError \/ UploadErrClosed

Broadcaster == BcastCheck \/ BcastSendDone \/ BcastWake

Subscriber(w) ==
  \/ WsAccept(w) \/ WsHsSendFail(w) \/ WsHandshakeOk(w) \/ WsHandshakeFail(w)
  \/ WsSendOk(w) \/ WsSendFail(w) \/ WsRecvTimeout(w) \/ WsRecvCancel(w)
  \/ WsRecvChunk(w) \/ WsRecvError(w) \/ WsClosed(w)

Download == DlStart \/ DlChunk \/ DlFinish

\* one upload, its broadcaster, its progress subscribers and cancel requests
Next ==
  \/ Upload
  \/ Broadcaster
  \/ \E w \in Conns : Subscriber(w)
  \/ CancelUpload

Spec == Init /\ [][Next]_vars

\* one download, the progress subscribers of its task id and cancel requests
NextDownload ==
  \/ Download
  \/ \E w \in Conns : Subscriber(w)
  \/ CancelUpload

SpecDownload == Init /\ [][NextDownload]_vars

\* the notification connections alone
Presence(n) ==
  \/ NotifConnect(n) \/ NotifRejected(n) \/ NotifAccepted(n) \/ NotifAcceptFail(n)
  \/ NotifPingOk(n) \/ NotifPingFail(n) \/ NotifRecvMsg(n) \/ NotifRecvFail(n)
  \/ NotifClosed(n)

NextPresence == \E n \in NotifConns : Presence(n)

SpecPresence == InitIdle /\ [][NextPresence]_vars

\* a caller of the SPAKE_protocal.py senders, one call at a time
NextSender == SendFileStart \/ SendFileChunk \/ SendFileEnd \/ SendMessage

SpecSender == InitIdle /\ [][NextSender]_vars

\* one transfer on its own task id, an upload or a download, that nobody cancels
\* and whose reads do not fail; subscribers come and go but send nothing
SoloUploadStart == dpc = "idle" /\ UploadStart     \* no download uses the id
SoloDlStart == upc = "idle" /\ DlStart             \* no upload uses the id

SubscriberQuiet(w) ==
  \/ WsAccept(w) \/ WsHsSendFail(w) \/ WsHandshakeOk(w) \/ WsHandshakeFail(w)
  \/ WsSendOk(w) \/ WsSendFail(w) \/ WsRecvTimeout(w) \/ WsRecvError(w)
  \/ WsClosed(w)

NextSolo ==
  \/ SoloUploadStart \/ UploadReadTimeout \/ UploadReadChunk \/ UploadReadEOF
  \/ UploadNotifySent
  \/ SoloDlStart \/ DlChunk \/ DlFinish
  \/ Broadcaster
  \/ \E w \in Conns : SubscriberQuiet(w)

SpecSolo == Init /\ [][NextSolo]_vars

\* the announcement of one upload to notification sockets that are all connected
\* (without client_id) before it starts; they answer pings and leave at any time,
\* except the one broadcast_upload_complete is suspended on
InitAnnounce ==
  /\ NoTransfer
  /\ websocket_clients = [k \in {NOTIFICATIONS} |-> <<"n1", "n2", "n3">>]
  /\ npc = [n \in NotifConns |-> "recv"]
  /\ n_sent = [n \in NotifConns |-> {"ping"}]

\* broadcast_upload_complete waits for its send to n to come back (line 216)
AnnouncingTo(n) ==
  /\ upc = "notify"
  /\ n_idx <= Len(websocket_clients[NOTIFICATIONS])
  /\ websocket_clients[NOTIFICATIONS][n_idx] = n

OtherPingFail(n) == ~AnnouncingTo(n) /\ NotifPingFail(n)
OtherRecvFail(n) == ~AnnouncingTo(n) /\ NotifRecvFail(n)

NextAnnounce ==
  \/ UploadStart \/ UploadReadTimeout \/ UploadReadChunk \/ UploadReadEOF
  \/ UploadNotifySent
  \/ BcastCheck \/ BcastWake
  \/ \E n \in NotifConns :
       \/ NotifPingOk(n) \/ NotifRecvMsg(n) \/ OtherPingFail(n) \/ OtherRecvFail(n)
       \/ NotifClosed(n)

SpecAnnounce == InitAnnounce /\ [][NextAnnounce]_vars

\* party A and party B over one socket
NextPeers == BListen \/ AConnect \/ BAccept \/ AFinish \/ BFinish \/ AVerify \/ BVerify

SpecPeers == InitIdle /\ [][NextPeers]_vars

\* upload_file alone, scheduled fairly: the event loop runs every ready task, so
\* the broadcaster, the upload and a subscriber's teardown each take their next
\* step; what the clients send is left to them
FairSpec ==
  /\ Spec
  /\ WF_vars(Broadcaster)
  /\ WF_vars(Upload)
  /\ \A w \in Conns : WF_vars(WsClosed(w))

\* ------------------------------------------------------------------ claims
Session == progress_tracker[task_id]
HasSession == Has(progress_tracker, task_id)
NoSubscribers == ~Has(websocket_clients, task_id) \/ websocket_clients[task_id] = <<>>
Gone(m) == Has(m, task_id) /\ ~Has(m', task_id)
SubscriberStep == \E w \in Conns : wpc'[w] # wpc[w]

\* the upload loop wrote a chunk to the file in this step (lines 307-315)
UploadWrites == upc = "read" /\ bytes_read' > bytes_read
\* the upload loop wrote a plaintext chunk in this step (line 312)
UploadWritesPlain ==
  /\ UploadWrites
  /\ files'[UPLOAD_NAME][Len(files'[UPLOAD_NAME])].key = "plain"
\* the websocket upload_chunk action wrote a chunk in this step (lines 136-138)
WsWrites ==
  \E fn \in WsFileNames :
    /\ Has(files', fn)
    /\ (~Has(files, fn) \/ Len(files'[fn]) > Len(files[fn]))
\* stream_file emitted a chunk in this step (lines 391-402)
DownloadEmits == dpc = "stream" /\ d_left' < d_left
ProgressChanges ==
  HasSession /\ Has(progress_tracker', task_id)
  /\ progress_tracker'[task_id].progress # Session.progress

\* C1: once a cancel request has taken effect on an upload in progress (its
\* session exists, completed is not yet set), the upload loop writes no further
\* chunk, never sets completed, and the handler returns its "canceled" result.
C1_CancelWins ==
  [][cancel_seen => (~UploadWrites /\ u_result' # "completed")]_vars

\* C2: while the session is terminal (completed or canceled) no step writes or
\* emits a chunk for the transfer or changes its progress.
C2_TerminalRejectsChunks ==
  [][(HasSession /\ Terminal(Session))
       => ~(UploadWrites \/ WsWrites \/ DownloadEmits \/ ProgressChanges)]_vars

\* C3: no session is both completed and canceled.
C3_NotBothTerminalFlags ==
  HasSession => ~(Session.completed /\ Session.canceled)

\* C4: the progress entry of a transfer disappears, and a subscriber's teardown
\* drops its cancellation signal or its session key, only in a step that finds
\* the subscriber list empty and the session terminal.
C4_DeleteOnlyUnsubscribedTerminal ==
  [][(Gone(progress_tracker)
        \/ (SubscriberStep /\ (Gone(cancel_events) \/ Gone(session_keys))))
       => (NoSubscribers /\ HasSession /\ Terminal(Session))]_vars

\* C4 witness: the upload has returned, a subscriber has torn down, and the
\* session the upload left behind is gone.
C4_Witness ==
  /\ upc = "done"
  /\ \E w \in Conns : wpc[w] = "done"
  /\ ~HasSession
  /\ ~Has(session_keys, task_id)

\* C5: at most one notification socket is registered per non-empty client id.
C5_OnePresencePerClient ==
  \A c \in ClientIds :
    Has(client_id_connections, c) => Len(client_id_connections[c]) <= 1

\* C6: a key stored for the transfer id keeps its value for as long as it is stored.
C6_KeyNeverReplaced ==
  [][(Has(session_keys, task_id) /\ Has(session_keys', task_id))
       => session_keys'[task_id] = session_keys[task_id]]_vars

\* C7: after a handshake on the transfer's signaling channel has failed, the
\* upload writes no plaintext chunk.
C7_NoPlaintextAfterFailedHandshake ==
  [][hs_failed => ~UploadWritesPlain]_vars

\* C8: no two chunk encryptions under one key share a nonce, in what the
\* senders sealed and in the frames the upload wrote.
C8_NonceNeverReused ==
  /\ \A i, j \in 1..Len(s_log) :
       (i # j /\ s_log[i].key = s_log[j].key) => s_log[i].nonce # s_log[j].nonce
  /\ Has(files, UPLOAD_NAME) =>
       \A i, j \in 1..Len(files[UPLOAD_NAME]) :
         (i # j /\ files[UPLOAD_NAME][i].key # "plain"
            /\ files[UPLOAD_NAME][i].key = files[UPLOAD_NAME][j].key)
           => files[UPLOAD_NAME][i].iv # files[UPLOAD_NAME][j].iv

\* C9: a cancel request made before the transfer has a session still cancels
\* it: an upload started afterwards stops at its first check, so it never waits
\* in file.read and never ends completed.
C9_EarlyCancelTakesEffect ==
  cancel_early =>
    /\ upc \in {"idle", "close_cancel", "done"}
    /\ u_result \in {"none", "canceled"}

\* C10: once the session of a running upload is terminal, its broadcaster
\* eventually leaves the loop.
C10_BroadcasterTerminates ==
  (bpc # "none" /\ HasSession /\ Terminal(Session)) ~> (bpc = "done")

\* C11: when A and B were started with the same password, neither side's key
\* confirmation fails.
C11_ConfirmationSucceeds ==
  (a_pw # "" /\ a_pw = b_pw) => (a_pc # "failed" /\ b_pc # "failed")

\* decrypt_data raised InvalidTag on an upload_chunk frame in this step (line 134):
\* the message was consumed and nothing reached the file
TagFailStep == w_chunks' > w_chunks /\ files' = files

\* C12: a failed tag verification of an upload_chunk frame leaves the transfer's
\* session terminal.
C12_TagFailureAbortsTransfer ==
  [][TagFailStep => (Has(progress_tracker', task_id)
                       /\ Terminal(progress_tracker'[task_id]))]_vars

\* completed goes from false (or no entry) to true in this step
CompletedRises ==
  /\ Has(progress_tracker', task_id)
  /\ progress_tracker'[task_id].completed
  /\ ~(HasSession /\ Session.completed)

\* the step in which the transfer's handler finishes its last chunk
TransferFinishes ==
  \/ upc = "read" /\ u_result' = "completed"     \* lines 333-337
  \/ dpc = "stream" /\ dpc' = "done"             \* lines 404-405

\* C13: in a transfer that is neither canceled nor failing, the progress of
\* the session never decreases, completed rises in the step that finishes the
\* transfer and in no other, progress is 100 in that step, and afterwards
\* neither changes while the entry exists.
C13_ProgressMonotone ==
  [][/\ (HasSession /\ Has(progress_tracker', task_id)) =>
          /\ progress_tracker'[task_id].progress >= Session.progress
          /\ Session.completed =>
                /\ progress_tracker'[task_id].completed
                /\ progress_tracker'[task_id].progress = Session.progress
     /\ CompletedRises <=> TransferFinishes
     /\ CompletedRises => progress_tracker'[task_id].progress = 100]_vars

\* C13 witness: an upload of two chunks has returned its success result and
\* its session shows progress 100 and completed.
C13_Witness ==
  /\ upc = "done" /\ u_result = "completed"
  /\ Has(files, UPLOAD_NAME) /\ Len(files[UPLOAD_NAME]) >= 2
  /\ HasSession /\ Session.completed /\ Session.progress = 100

\* cancel_events[task_id] exists and is set
SignalSet(ce) == Has(ce, task_id) /\ ce[task_id]

\* C14: a set cancellation signal stays set for as long as the session entry
\* of the transfer exists.
C14_CancelSignalSticky ==
  [][(SignalSet(cancel_events) /\ HasSession /\ Has(progress_tracker', task_id))
       => SignalSet(cancel_events')]_vars

\* the sockets registered as notification subscribers
NotifList(wc) == IF Has(wc, NOTIFICATIONS) THEN wc[NOTIFICATIONS] ELSE <<>>
\* the connections registered under client id c
Roster(cic, c) == IF Has(cic, c) THEN cic[c] ELSE <<>>
\* client id c has a registered presence connection
HasLive(c) == Roster(client_id_connections, c) # <<>>

\* C15: a connection attempt for a client id that has a registered connection
\* is rejected, is never registered itself, and neither the step that rejects
\* it nor the step that finishes it changes who is registered under any client
\* id or the list of notification subscribers.
C15_RejectChangesNothing ==
  [][\A n \in NotifConns :
       /\ (npc[n] = "idle" /\ npc'[n] # "idle" /\ n_cid'[n] # "" /\ HasLive(n_cid'[n]))
            => npc'[n] = "reject"
       /\ (npc'[n] # npc[n] /\ (npc'[n] = "reject" \/ npc[n] = "reject"))
            => /\ \A c \in ClientIds :
                    Roster(client_id_connections', c) = Roster(client_id_connections, c)
               /\ NotifList(websocket_clients') = NotifList(websocket_clients)
               /\ ~InSeq(NotifList(websocket_clients'), n)
               /\ npc'[n] \in {"reject", "rejected"}]_vars

\* C15 witness: a rejected attempt has finished while the connection that was
\* there before it is still registered under the same client id.
C15_Witness ==
  \E n, m \in NotifConns :
    /\ npc[n] = "rejected" /\ npc[m] \in {"ping", "recv"}
    /\ n_cid[n] # "" /\ n_cid[n] = n_cid[m]
    /\ client_id_connections[n_cid[m]] = <<m>>
    /\ InSeq(NotifList(websocket_clients), m)

\* socket n is registered and in its ping loop
InPresence(n) == npc[n] \in {"ping", "recv"}

\* C16: the step that registers a new presence connection sends user_connected
\* to every other connection in its ping loop and connected_users to the
\* newcomer.
C16_NewcomerAnnounced ==
  [][\A n \in NotifConns :
       (npc[n] = "accept" /\ npc'[n] = "ping") =>
         /\ "connected_users" \in n_sent'[n]
         /\ \A m \in NotifConns \ {n} :
              InPresence(m) => "user_connected" \in n_sent'[m]]_vars

\* C17: once upload_file has returned, the uploaded file exists exactly when
\* the handler returned its success result.
C17_FileKeptIffCompleted ==
  upc = "done" => (Has(files, UPLOAD_NAME) <=> u_result = "completed")

\* broadcast_progress issues a send_json in this step (line 264)
BcastIssues == bpc' = "send" /\ (bpc # "send" \/ b_idx' # b_idx)
\* the socket that send goes to
BcastTarget == websocket_clients'[task_id][b_idx']

\* C18: the broadcaster sends a progress snapshot only to a connection whose
\* handshake has been completed (the client's SPAKE2 message was received).
C18_NoSnapshotBeforeHandshake ==
  [][BcastIssues => wpc'[BcastTarget] \notin {"hs", "dead"}]_vars

\* broadcast_upload_complete has returned from its loop over the sockets
AnnounceOver == upc = "done" /\ u_result = "completed"

\* C19: a broadcast round tolerates concurrent removal: when another socket's
\* handler removes itself from the list while a send is pending, every socket
\* that stays connected for the whole round is still sent the message.
C19_NobodySkipped ==
  AnnounceOver => \A n \in NotifConns : InPresence(n) => "upload_complete" \in n_sent[n]

\* the transfer's session is terminal and nobody is subscribed to its progress
Unobserved == HasSession /\ Terminal(Session) /\ NoSubscribers
\* the session entry and the derived key are gone
KeyMaterialGone == ~HasSession /\ ~Has(session_keys, task_id)

\* C20: whenever the session is terminal and its subscriber list is empty, the
\* session entry and its derived key are eventually deleted, whether the last
\* subscriber left before or after the session became terminal, or none came.
\* (A behaviour in which a new subscriber turns up is not held against the code.)
C20_KeyMaterialEventuallyDeleted == Unobserved ~> (KeyMaterialGone \/ ~NoSubscribers)

\* the transfer has written its session entry: the upload stored a progress
\* (line 315) or a terminal flag (lines 278, 335, 349), or the broadcaster has
\* evaluated its loop condition (line 258)
SessionHasExisted ==
  \/ bytes_read > 0
  \/ upc \in {"notify", "close_cancel", "close_err", "done"}
  \/ bpc \in {"send", "sleep", "done"}
\* ... and the entry is gone: only the teardown of websocket_progress deletes it
\* (line 158)
SessionDeleted == SessionHasExisted /\ ~HasSession
\* a step of upload_file (its file_writer and finally included) or of its
\* broadcast_progress task
LeftoverStep == wsv' = wsv /\ (uploadv' # uploadv \/ bpc' # bpc \/ b_idx' # b_idx)

\* C21: once the session of a transfer has been deleted, no step of the upload,
\* its file_writer cleanup, its finally block or its broadcaster creates an
\* entry for the transfer id again.
C21_NoRevivalByLeftoverWork ==
  [][(SessionDeleted /\ LeftoverStep) => ~Has(progress_tracker', task_id)]_vars

\* C22: the progress of the session is in 0..100 in every reachable state,
\* whichever of the upload loop, the download stream and the websocket
\* upload_chunk action wrote it last.
C22_ProgressInRange == HasSession => Session.progress \in 0..100

\* socket n makes a connection attempt with client id c in this step (line 168)
Attempts(n, c) == npc[n] = "idle" /\ npc'[n] # "idle" /\ n_cid'[n] = c
\* no connection in its ping loop carries client id c
NoneLive(c) == \A m \in NotifConns : InPresence(m) => n_cid[m] # c

\* C23: a presence connection whose handler has left the ping loop (ping send
\* failed, receive timed out or raised) is, from that step on, in neither the
\* notification list nor any roster entry, and a connection attempt with a
\* client id that no connection in its ping loop carries passes the
\* already-connected test.
C23_PresenceCleanup ==
  [][\A n \in NotifConns :
       /\ npc'[n] \notin {"ping", "recv"} =>
            /\ ~InSeq(NotifList(websocket_clients'), n)
            /\ \A c \in ClientIds : ~InSeq(Roster(client_id_connections', c), n)
       /\ \A c \in ClientIds :
            (Attempts(n, c) /\ NoneLive(c)) => npc'[n] = "accept"]_vars

\* C23 witness: a connection of a client id has ended and been closed, and
\* another connection is registered as the only one under that client id.
C23_Witness ==
  \E n, m \in NotifConns :
    /\ npc[m] = "done" /\ n_cid[m] # "" /\ "ping" \in n_sent[m]
    /\ n # m /\ n_cid[n] = n_cid[m] /\ InPresence(n)
    /\ client_id_connections[n_cid[n]] = <<n>>
    /\ InSeq(NotifList(websocket_clients), n)
    /\ ~InSeq(NotifList(websocket_clients), m)

\* C24: all chunks one upload has written are in the same mode: all plaintext,
\* or all frames under one and the same key.
C24_OneModePerUpload ==
  Has(files, UPLOAD_NAME) =>
    \A i, j \in 1..Len(files[UPLOAD_NAME]) :
      files[UPLOAD_NAME][i].key = files[UPLOAD_NAME][j].key

====
